---- MODULE Spec2Model ----
(***************************************************************************)
(* Model of cmdinput.py: a process-wide line buffer, the one-split         *)
(* tokenizer _read_one, the coercion _transform and the public operations  *)
(* read, read_list, readline and clear_buffer.                             *)
(*                                                                         *)
(* A Python str is a sequence of one-character strings.  A Python          *)
(* "optional" value (None or a str) is a sequence of length 0 (None) or 1  *)
(* (<<s>>, the str s, possibly the empty str <<>>).                        *)
(* A file is the sequence of its lines (without the line terminator, which *)
(* str.strip() removes anyway) and the number of lines already read.       *)
(***************************************************************************)
EXTENDS Integers, Sequences, FiniteSets, TLC

VARIABLES
    source,     \* the lines of the input file
    pos,        \* number of lines file.readline() has already returned
    buffer,     \* the module global _buffer: <<>> is None, <<s>> a str
    last,       \* record of the most recent call: arguments, outcome, pre-state
    plain,      \* TRUE while every call was a read or read_list with sep=None
    emitted,    \* while plain: every token _read_one has returned, in order
    sourceB,    \* the lines of a second input file
    posB,       \* number of lines already read from the second file
    owner,      \* the file the content of the buffer was pulled from
    thr,        \* per caller of a concurrent run: the statement it is at
                \* and its local variables
    lock,       \* the mutex around a call: "off" when none is used
    delivered   \* concurrent run: what the calls have returned, in order

vars == <<source, pos, buffer, last, plain, emitted, sourceB, posB, owner,
          thr, lock, delivered>>

\* the state of the concurrent callers, which a sequential run leaves alone
threads == <<thr, lock, delivered>>

----------------------------------------------------------------------------
(* Bounds of the model *)

MaxSrcChars == 4    \* total number of characters of a generated file
MaxLines == 2       \* number of lines of a generated file
MaxOneLine == 5     \* number of characters of a generated one-line file
MaxStrTypes == 3    \* number of str requests in one read call
MaxWords == 2       \* number of words on a line of a generated typed file
MaxTypes == 2       \* number of requests in one read call on a typed file
MaxCount == 2       \* the count n of a read_list call
MaxCharsA == 3      \* characters of the one line of the first of two files
MaxCharsB == 2      \* characters of the one line of the second of two files
MaxCalls == 2       \* calls each of two concurrent callers makes

----------------------------------------------------------------------------
(* Characters and strings *)

Chars == {"a", " ", "|"}
Whitespace == {" "}
Digits == {"0", "1", "2", "3", "4"}

DigitValue(c) ==
    CASE c = "0" -> 0 [] c = "1" -> 1 [] c = "2" -> 2 [] c = "3" -> 3
      [] c = "4" -> 4

lowerChar(c) ==
    CASE c = "T" -> "t" [] c = "R" -> "r" [] c = "U" -> "u" [] c = "E" -> "e"
      [] c = "F" -> "f" [] c = "A" -> "a" [] c = "L" -> "l" [] c = "S" -> "s"
      [] OTHER -> c

lower(s) == [i \in 1..Len(s) |-> lowerChar(s[i])]

RECURSIVE lstrip(_)
lstrip(s) ==
    IF s # <<>> /\ Head(s) \in Whitespace THEN lstrip(Tail(s)) ELSE s

RECURSIVE rstrip(_)
rstrip(s) ==
    IF s # <<>> /\ s[Len(s)] \in Whitespace
    THEN rstrip(SubSeq(s, 1, Len(s) - 1))
    ELSE s

strip(s) == rstrip(lstrip(s))

\* str.find: index of the first occurrence of sub in s, 0 when there is none
find(s, sub) ==
    LET hits == {i \in 1..(Len(s) - Len(sub) + 1) :
                    SubSeq(s, i, i + Len(sub) - 1) = sub}
    IN IF hits = {} THEN 0 ELSE CHOOSE i \in hits : \A j \in hits : i <= j

\* index of the first whitespace character of s, 0 when there is none
findWs(s) ==
    LET hits == {i \in 1..Len(s) : s[i] \in Whitespace}
    IN IF hits = {} THEN 0 ELSE CHOOSE i \in hits : \A j \in hits : i <= j

\* str.rfind: index of the last occurrence of sub in s, 0 when there is none
rfind(s, sub) ==
    LET hits == {i \in 1..(Len(s) - Len(sub) + 1) :
                    SubSeq(s, i, i + Len(sub) - 1) = sub}
    IN IF hits = {} THEN 0 ELSE CHOOSE i \in hits : \A j \in hits : i >= j

\* mutant: str.rsplit(sep, 1), the split at the last occurrence of sep
split_last(s, sep) ==
    IF sep = <<>>
    THEN LET t == lstrip(s)
             i == findWs(t)
         IN IF t = <<>> THEN <<>>
            ELSE IF i = 0 THEN <<t>>
            ELSE LET rest == lstrip(SubSeq(t, i, Len(t)))
                 IN IF rest = <<>> THEN <<SubSeq(t, 1, i - 1)>>
                    ELSE <<SubSeq(t, 1, i - 1), rest>>
    ELSE LET i == rfind(s, sep[1])
         IN IF i = 0 THEN <<s>>
            ELSE <<SubSeq(s, 1, i - 1), SubSeq(s, i + Len(sep[1]), Len(s))>>

\* str.split(sep, 1): sep = <<>> is None (split on whitespace runs)
split(s, sep) ==
    IF sep = <<>>
    THEN LET t == lstrip(s)
             i == findWs(t)
         IN IF t = <<>> THEN <<>>
            ELSE IF i = 0 THEN <<t>>
            ELSE LET rest == lstrip(SubSeq(t, i, Len(t)))
                 IN IF rest = <<>> THEN <<SubSeq(t, 1, i - 1)>>
                    ELSE <<SubSeq(t, 1, i - 1), rest>>
    ELSE LET i == find(s, sep[1])
         IN IF i = 0 THEN <<s>>
            ELSE <<SubSeq(s, 1, i - 1), SubSeq(s, i + Len(sep[1]), Len(s))>>

----------------------------------------------------------------------------
(* The input file *)

\* file.readline(): the next line, or "" at end of file
fileReadline(src, p) == IF p < Len(src) THEN src[p + 1] ELSE <<>>
fileAdvance(src, p) == IF p < Len(src) THEN p + 1 ELSE p

\* `not x` for an optional str: None and "" are both falsy
Falsy(x) == x = <<>> \/ x[1] = <<>>

----------------------------------------------------------------------------
(* _read_one *)

\* mutant: the token handed out stays in the buffer
_read_one_keep(buf, src, p, sep) ==
    LET fill   == Falsy(buf)
        b1     == IF fill THEN strip(fileReadline(src, p)) ELSE buf[1]
        p1     == IF fill THEN fileAdvance(src, p) ELSE p
        parts  == split(strip(b1), sep)
    IN [buffer |-> IF parts # <<>> THEN <<strip(b1)>> ELSE <<>>,
        pos    |-> p1,
        ret    |-> IF parts # <<>> THEN <<parts[1]>> ELSE <<>>,
        pulled |-> IF fill THEN 1 ELSE 0]

\* mutant: every pull reads a line, whatever the buffer holds
_read_one_refill(buf, src, p, sep) ==
    LET b1     == strip(fileReadline(src, p))
        parts  == split(strip(b1), sep)
    IN [buffer |-> IF Len(parts) > 1 THEN <<parts[2]>> ELSE <<>>,
        pos    |-> fileAdvance(src, p),
        ret    |-> IF parts # <<>> THEN <<parts[1]>> ELSE <<>>,
        pulled |-> 1]

_read_one(buf, src, p, sep) ==
    LET fill   == Falsy(buf)
        b1     == IF fill THEN strip(fileReadline(src, p)) ELSE buf[1]
        p1     == IF fill THEN fileAdvance(src, p) ELSE p
        parts  == split(strip(b1), sep)
    IN [buffer |-> IF Len(parts) > 1 THEN <<parts[2]>> ELSE <<>>,
        pos    |-> p1,
        ret    |-> IF parts # <<>> THEN <<parts[1]>> ELSE <<>>,
        pulled |-> IF fill THEN 1 ELSE 0]

----------------------------------------------------------------------------
(* Type requests and values *)

\* A request is a type passed to read: int, str, bool, or a list object
\* such as [int] * 2 (tag "list", elems its elements)
Scalar(tag) == [tag |-> tag, elems |-> <<>>]
ListShape(elems) == [tag |-> "list", elems |-> elems]

TInt == Scalar("int")
TStr == Scalar("str")
TBool == Scalar("bool")

ScalarTypes == {TInt, TStr, TBool}

\* Conversion functions a caller passes as a request: lambda x: int(x, 2),
\* which raises ValueError on a token that is not binary; lambda x: x + 1,
\* which raises TypeError on every token; lambda x: table[x] with
\* table = {"1": 1}, which raises KeyError on every other token
TBinary == Scalar("lambda x: int(x, 2)")
TPlusOne == Scalar("lambda x: x + 1")
TLookup == Scalar("lambda x: table[x]")

CustomTypes == {TBinary, TPlusOne, TLookup}

\* [], [int] * 2 and [[int] * 2] * 2
EmptyShape == ListShape(<<>>)
PairShape == ListShape(<<TInt, TInt>>)
NestedShape == ListShape(<<PairShape, PairShape>>)

ListShapes == {EmptyShape, PairShape, NestedShape}

Requests == ScalarTypes \cup ListShapes

\* Python values: every value carries all fields so that any two compare
IntVal(n) == [kind |-> "int", n |-> n, s |-> <<>>, b |-> FALSE, items |-> <<>>]
StrVal(s) == [kind |-> "str", n |-> 0, s |-> s, b |-> FALSE, items |-> <<>>]
BoolVal(b) == [kind |-> "bool", n |-> 0, s |-> <<>>, b |-> b, items |-> <<>>]
TupleVal(items) == [kind |-> "tuple", n |-> 0, s |-> <<>>, b |-> FALSE, items |-> items]
ListVal(items) == [kind |-> "list", n |-> 0, s |-> <<>>, b |-> FALSE, items |-> items]
NoVal == [kind |-> "none", n |-> 0, s |-> <<>>, b |-> FALSE, items |-> <<>>]

----------------------------------------------------------------------------
(* _transform *)

\* int(value): surrounding whitespace is ignored, the rest must be digits
\* (the alphabet of the model has no sign and no underscore)
intOk(value) ==
    LET t == strip(value)
    IN t # <<>> /\ \A i \in 1..Len(t) : t[i] \in Digits

RECURSIVE decimal(_)
decimal(t) ==
    IF t = <<>> THEN 0
    ELSE 10 * decimal(SubSeq(t, 1, Len(t) - 1)) + DigitValue(t[Len(t)])

intValue(value) == decimal(strip(value))

STrue == <<"t", "r", "u", "e">>
SFalse == <<"f", "a", "l", "s", "e">>

\* callable(typ): the types are callable, a list object is not
callable(typ) == typ.tag # "list"

\* int(value, 2)
binOk(value) ==
    LET t == strip(value)
    IN t # <<>> /\ \A i \in 1..Len(t) : t[i] \in {"0", "1"}

RECURSIVE binary(_)
binary(t) ==
    IF t = <<>> THEN 0
    ELSE 2 * binary(SubSeq(t, 1, Len(t) - 1)) + DigitValue(t[Len(t)])

\* typ(value) for a callable typ: the value it returns, or the kind of
\* exception it raises
call(typ, value) ==
    IF typ.tag = "str" THEN [raises |-> "", val |-> StrVal(value)]
    ELSE IF typ.tag = "int"
    THEN IF intOk(value)
         THEN [raises |-> "", val |-> IntVal(intValue(value))]
         ELSE [raises |-> "ValueError", val |-> NoVal]
    ELSE IF typ = TBinary
    THEN IF binOk(value)
         THEN [raises |-> "", val |-> IntVal(binary(strip(value)))]
         ELSE [raises |-> "ValueError", val |-> NoVal]
    ELSE IF typ = TPlusOne THEN [raises |-> "TypeError", val |-> NoVal]
    ELSE IF value = <<"1">> THEN [raises |-> "", val |-> IntVal(1)]
    ELSE [raises |-> "KeyError", val |-> NoVal]

\* except (ValueError, TypeError)
Caught == {"ValueError", "TypeError"}

\* mutant: the boolean spellings are compared without lower()
_transform_cased(value, typ) ==
    IF typ.tag = "bool"
    THEN IF value \in {STrue, SFalse}
         THEN [error |-> "", val |-> BoolVal(value = STrue)]
         ELSE [error |-> "ConversionError", val |-> NoVal]
    ELSE IF ~callable(typ) THEN [error |-> "", val |-> StrVal(value)]
    ELSE IF typ.tag = "str" THEN [error |-> "", val |-> StrVal(value)]
    ELSE IF intOk(value) THEN [error |-> "", val |-> IntVal(intValue(value))]
    ELSE [error |-> "ConversionError", val |-> NoVal]

\* an exception that is not caught leaves _transform, and read, as it is:
\* error is then the kind of that exception
_transform(value, typ) ==
    IF typ.tag = "bool"
    THEN IF lower(value) \in {STrue, SFalse}
         THEN [error |-> "", val |-> BoolVal(lower(value) = STrue)]
         ELSE [error |-> "ConversionError", val |-> NoVal]
    ELSE IF ~callable(typ) THEN [error |-> "", val |-> StrVal(value)]
    ELSE LET o == call(typ, value)
         IN IF o.raises \in Caught
            THEN [error |-> "ConversionError", val |-> NoVal]
            ELSE IF o.raises # "" THEN [error |-> o.raises, val |-> NoVal]
            ELSE [error |-> "", val |-> o.val]

----------------------------------------------------------------------------
(* read and read_list: the loops, as functions of the state they start in *)

Raised(r, err, toks, pulls) ==
    [buffer |-> r.buffer, pos |-> r.pos, error |-> err, value |-> NoVal,
     tokens |-> toks, pulls |-> pulls]

\* mutant: an empty token is not an error but is passed on to _transform
RECURSIVE readLoop_nocheck(_, _, _, _, _, _, _, _)
readLoop_nocheck(types, sep, src, buf, p, result, toks, pulls) ==
    IF types = <<>>
    THEN [buffer |-> buf, pos |-> p, error |-> "",
          value  |-> IF Len(result) = 1 THEN result[1] ELSE TupleVal(result),
          tokens |-> toks, pulls |-> pulls]
    ELSE LET r == _read_one(buf, src, p, sep)
             v == IF r.ret = <<>> THEN <<>> ELSE r.ret[1]
             t == _transform(v, Head(types))
         IN IF t.error # ""
            THEN Raised(r, t.error, Append(toks, v), pulls + r.pulled)
            ELSE readLoop_nocheck(Tail(types), sep, src, r.buffer, r.pos,
                                  Append(result, t.val), Append(toks, v),
                                  pulls + r.pulled)

\* mutant: a failed coercion puts the offending token back
RECURSIVE readLoop_rollback(_, _, _, _, _, _, _, _)
readLoop_rollback(types, sep, src, buf, p, result, toks, pulls) ==
    IF types = <<>>
    THEN [buffer |-> buf, pos |-> p, error |-> "",
          value  |-> IF Len(result) = 1 THEN result[1] ELSE TupleVal(result),
          tokens |-> toks, pulls |-> pulls]
    ELSE LET r == _read_one(buf, src, p, sep)
         IN IF Falsy(r.ret)
            THEN Raised(r, "EmptyInputError", toks, pulls + r.pulled)
            ELSE LET t == _transform(r.ret[1], Head(types))
                 IN IF t.error # ""
                    THEN Raised([buffer |-> buf, pos |-> p], t.error,
                                Append(toks, r.ret[1]), pulls + r.pulled)
                    ELSE readLoop_rollback(Tail(types), sep, src, r.buffer,
                                           r.pos, Append(result, t.val),
                                           Append(toks, r.ret[1]),
                                           pulls + r.pulled)

\* mutant: the result is a tuple also for a single request
RECURSIVE readLoop_tuple(_, _, _, _, _, _, _, _)
readLoop_tuple(types, sep, src, buf, p, result, toks, pulls) ==
    IF types = <<>>
    THEN [buffer |-> buf, pos |-> p, error |-> "",
          value  |-> TupleVal(result), tokens |-> toks, pulls |-> pulls]
    ELSE LET r == _read_one(buf, src, p, sep)
         IN IF Falsy(r.ret)
            THEN Raised(r, "EmptyInputError", toks, pulls + r.pulled)
            ELSE LET t == _transform(r.ret[1], Head(types))
                 IN IF t.error # ""
                    THEN Raised(r, t.error, Append(toks, r.ret[1]),
                                pulls + r.pulled)
                    ELSE readLoop_tuple(Tail(types), sep, src, r.buffer,
                                        r.pos, Append(result, t.val),
                                        Append(toks, r.ret[1]),
                                        pulls + r.pulled)

\* for typ in types: ... of read; result is the list built so far
RECURSIVE readLoop(_, _, _, _, _, _, _, _)
readLoop(types, sep, src, buf, p, result, toks, pulls) ==
    IF types = <<>>
    THEN [buffer |-> buf, pos |-> p, error |-> "",
          value  |-> IF Len(result) = 1 THEN result[1] ELSE TupleVal(result),
          tokens |-> toks, pulls |-> pulls]
    ELSE LET r == _read_one(buf, src, p, sep)
         IN IF Falsy(r.ret)
            THEN Raised(r, "EmptyInputError", toks, pulls + r.pulled)
            ELSE LET t == _transform(r.ret[1], Head(types))
                 IN IF t.error # ""
                    THEN Raised(r, t.error, Append(toks, r.ret[1]),
                                pulls + r.pulled)
                    ELSE readLoop(Tail(types), sep, src, r.buffer, r.pos,
                                  Append(result, t.val),
                                  Append(toks, r.ret[1]), pulls + r.pulled)

read(types, sep, src, buf, p) ==
    readLoop(types, sep, src, buf, p, <<>>, <<>>, 0)

\* mutant: read_list builds its list back to front
RECURSIVE listLoop_rev(_, _, _, _, _, _, _, _, _)
listLoop_rev(typ, k, sep, src, buf, p, result, toks, pulls) ==
    IF k = 0
    THEN [buffer |-> buf, pos |-> p, error |-> "", value |-> ListVal(result),
          tokens |-> toks, pulls |-> pulls]
    ELSE LET r == _read_one(buf, src, p, sep)
         IN IF Falsy(r.ret)
            THEN Raised(r, "EmptyInputError", toks, pulls + r.pulled)
            ELSE LET t == _transform(r.ret[1], typ)
                 IN IF t.error # ""
                    THEN Raised(r, t.error, Append(toks, r.ret[1]),
                                pulls + r.pulled)
                    ELSE listLoop_rev(typ, k - 1, sep, src, r.buffer, r.pos,
                                      <<t.val>> \o result,
                                      Append(toks, r.ret[1]), pulls + r.pulled)

\* for _ in range(n): ... of read_list, k iterations left
RECURSIVE listLoop(_, _, _, _, _, _, _, _, _)
listLoop(typ, k, sep, src, buf, p, result, toks, pulls) ==
    IF k = 0
    THEN [buffer |-> buf, pos |-> p, error |-> "", value |-> ListVal(result),
          tokens |-> toks, pulls |-> pulls]
    ELSE LET r == _read_one(buf, src, p, sep)
         IN IF Falsy(r.ret)
            THEN Raised(r, "EmptyInputError", toks, pulls + r.pulled)
            ELSE LET t == _transform(r.ret[1], typ)
                 IN IF t.error # ""
                    THEN Raised(r, t.error, Append(toks, r.ret[1]),
                                pulls + r.pulled)
                    ELSE listLoop(typ, k - 1, sep, src, r.buffer, r.pos,
                                  Append(result, t.val),
                                  Append(toks, r.ret[1]), pulls + r.pulled)

read_list(typ, n, sep, src, buf, p) ==
    IF n = 0
    THEN [buffer |-> buf, pos |-> p, error |-> "InvalidRequestError",
          value |-> NoVal, tokens |-> <<>>, pulls |-> 0]
    ELSE listLoop(typ, n, sep, src, buf, p, <<>>, <<>>, 0)

\* mutant: readline always reads a fresh line and drops the remainder
readline_fresh(src, buf, p) ==
    [buffer |-> <<>>, pos |-> fileAdvance(src, p), error |-> "",
     value |-> StrVal(strip(fileReadline(src, p))),
     tokens |-> <<>>, pulls |-> 1]

\* mutant: readline hands out the remainder and keeps it in the buffer
readline_keep(src, buf, p) ==
    IF ~Falsy(buf)
    THEN [buffer |-> buf, pos |-> p, error |-> "", value |-> StrVal(buf[1]),
          tokens |-> <<>>, pulls |-> 0]
    ELSE [buffer |-> buf, pos |-> fileAdvance(src, p), error |-> "",
          value |-> StrVal(strip(fileReadline(src, p))),
          tokens |-> <<>>, pulls |-> 1]

\* mutant: readline treats an empty line like read does, as missing input
readline_raise(src, buf, p) ==
    IF ~Falsy(buf)
    THEN [buffer |-> <<>>, pos |-> p, error |-> "", value |-> StrVal(buf[1]),
          tokens |-> <<>>, pulls |-> 0]
    ELSE IF strip(fileReadline(src, p)) = <<>>
    THEN [buffer |-> buf, pos |-> fileAdvance(src, p),
          error |-> "EmptyInputError", value |-> NoVal,
          tokens |-> <<>>, pulls |-> 1]
    ELSE [buffer |-> buf, pos |-> fileAdvance(src, p), error |-> "",
          value |-> StrVal(strip(fileReadline(src, p))),
          tokens |-> <<>>, pulls |-> 1]

\* readline
readline(src, buf, p) ==
    IF ~Falsy(buf)
    THEN [buffer |-> <<>>, pos |-> p, error |-> "", value |-> StrVal(buf[1]),
          tokens |-> <<>>, pulls |-> 0]
    ELSE [buffer |-> buf, pos |-> fileAdvance(src, p), error |-> "",
          value |-> StrVal(strip(fileReadline(src, p))),
          tokens |-> <<>>, pulls |-> 1]

\* mutant: the remainder survives clear_buffer
clear_buffer_keep(buf) == buf

\* clear_buffer
clear_buffer(buf) == <<>>

----------------------------------------------------------------------------
(* The inputs: file contents, separators, requests *)

\* every str over Chars of at most n characters
Strs(n) == UNION {[1..k -> Chars] : k \in 0..n}

\* every file of at most k lines and at most n characters in all
RECURSIVE Files(_, _)
Files(k, n) ==
    IF k = 0 THEN {<<>>}
    ELSE {<<>>} \cup
         UNION {{<<l>> \o rest : rest \in Files(k - 1, n - Len(l))} :
                l \in Strs(n)}

\* every spelling of a word in upper and lower case
RECURSIVE Spellings(_, _)
Spellings(w, up) ==
    IF w = <<>> THEN {<<>>}
    ELSE {<<c>> \o r : c \in {Head(w), Head(up)},
                       r \in Spellings(Tail(w), Tail(up))}

\* tokens for the coercions
Words ==
    Spellings(<<"t", "r", "u", "e">>, <<"T", "R", "U", "E">>)
    \cup Spellings(<<"f", "a", "l", "s", "e">>, <<"F", "A", "L", "S", "E">>)
    \cup {<<"1">>, <<"0">>, <<"y", "e", "s">>, <<"n", "o">>,
          <<"t", "r", "u">>, <<"t", "r", "u", "e", "e">>,
          <<"f", "a", "l", "s">>, <<"t">>, <<"1", "0">>}

WordFiles == {<<w>> : w \in Words}

\* lines of at most n words "1" or "a", one space between two words
RECURSIVE WordLines(_)
WordLines(n) ==
    IF n = 0 THEN {<<>>}
    ELSE LET shorter == WordLines(n - 1)
         IN shorter \cup
            {IF l = <<>> THEN <<w>> ELSE l \o <<" ", w>> :
                l \in shorter, w \in {"1", "a"}}

\* the input of the nested list example: "1 2\n3 4\n"
NestedExample == << <<"1", " ", "2">>, <<"3", " ", "4">> >>

TypedFiles ==
    UNION {[1..k -> WordLines(MaxWords)] : k \in 0..MaxLines}
    \cup WordFiles \cup {NestedExample}

\* sep: None or "|"
Seps == {<<>>, << <<"|">> >>}

StrTuples == UNION {[1..k -> {TStr}] : k \in 0..MaxStrTypes}

TypeTuples ==
    UNION {[1..k -> ScalarTypes] : k \in 0..MaxTypes}
    \cup {<<EmptyShape>>, <<NestedShape>>}

----------------------------------------------------------------------------
(* The state machine *)

\* what the claims tell apart about the call before the current one
Prev ==
    IF last.op = "clear_buffer" THEN "clear_buffer"
    ELSE IF last.error # "" THEN last.error
    ELSE "other"

\* a call with the file f ("A": source, "B": sourceB) as its file argument
CallOn(f, op, types, n, sep, r) ==
    [op |-> op, types |-> types, n |-> n, sep |-> sep,
     error |-> r.error, value |-> r.value, tokens |-> r.tokens,
     pulls |-> r.pulls, preBuffer |-> buffer,
     prePos |-> IF f = "A" THEN pos ELSE posB,
     prePlain |-> plain, preEmitted |-> emitted, prev |-> Prev,
     file |-> f, preOwner |-> owner]

Call(op, types, n, sep, r) == CallOn("A", op, types, n, sep, r)

NoCall ==
    [op |-> "init", types |-> <<>>, n |-> 0, sep |-> <<>>,
     error |-> "", value |-> NoVal, tokens |-> <<>>, pulls |-> 0,
     preBuffer |-> <<>>, prePos |-> 0, prePlain |-> TRUE,
     preEmitted |-> <<>>, prev |-> "other", file |-> "A", preOwner |-> "A"]

Callers == {"t1", "t2"}

\* a caller that is in no call
Idle == [pc |-> "idle", parts |-> <<>>, ret |-> <<>>, calls |-> 0]

Start3(filesA, filesB, locks) ==
    /\ source \in filesA
    /\ pos = 0
    /\ sourceB \in filesB
    /\ posB = 0
    /\ buffer = <<>>
    /\ owner = "A"
    /\ last = NoCall
    /\ plain = TRUE
    /\ emitted = <<>>
    /\ thr = [t \in Callers |-> Idle]
    /\ lock \in locks
    /\ delivered = <<>>

Start2(filesA, filesB) == Start3(filesA, filesB, {"off"})

Start(files) == Start2(files, {<<>>})

Read(types, sep) ==
    LET r == read(types, sep, source, buffer, pos)
    IN /\ buffer' = r.buffer
       /\ pos' = r.pos
       /\ last' = Call("read", types, 0, sep, r)
       /\ plain' = (plain /\ sep = <<>>)
       /\ emitted' = IF plain' THEN emitted \o r.tokens ELSE <<>>
       /\ owner' = IF r.pulls > 0 THEN "A" ELSE owner
       /\ UNCHANGED <<source, sourceB, posB, threads>>

ReadList(typ, n, sep) ==
    LET r == read_list(typ, n, sep, source, buffer, pos)
    IN /\ buffer' = r.buffer
       /\ pos' = r.pos
       /\ last' = Call("read_list", <<typ>>, n, sep, r)
       /\ plain' = (plain /\ sep = <<>>)
       /\ emitted' = IF plain' THEN emitted \o r.tokens ELSE <<>>
       /\ owner' = IF r.pulls > 0 THEN "A" ELSE owner
       /\ UNCHANGED <<source, sourceB, posB, threads>>

ReadLine ==
    LET r == readline(source, buffer, pos)
    IN /\ buffer' = r.buffer
       /\ pos' = r.pos
       /\ last' = Call("readline", <<>>, 0, <<>>, r)
       /\ plain' = FALSE
       /\ emitted' = <<>>
       /\ owner' = IF r.pulls > 0 THEN "A" ELSE owner
       /\ UNCHANGED <<source, sourceB, posB, threads>>

ClearBuffer ==
    LET r == [buffer |-> clear_buffer(buffer), pos |-> pos, error |-> "",
              value |-> NoVal, tokens |-> <<>>, pulls |-> 0]
    IN /\ buffer' = r.buffer
       /\ last' = Call("clear_buffer", <<>>, 0, <<>>, r)
       /\ plain' = FALSE
       /\ emitted' = <<>>
       /\ UNCHANGED <<source, pos, sourceB, posB, owner, threads>>

\* read(*types, sep=sep, file=B)
ReadB(types, sep) ==
    LET r == read(types, sep, sourceB, buffer, posB)
    IN /\ buffer' = r.buffer
       /\ posB' = r.pos
       /\ last' = CallOn("B", "read", types, 0, sep, r)
       /\ plain' = FALSE
       /\ emitted' = <<>>
       /\ owner' = IF r.pulls > 0 THEN "B" ELSE owner
       /\ UNCHANGED <<source, pos, sourceB, threads>>

\* readline(file=B)
ReadLineB ==
    LET r == readline(sourceB, buffer, posB)
    IN /\ buffer' = r.buffer
       /\ posB' = r.pos
       /\ last' = CallOn("B", "readline", <<>>, 0, <<>>, r)
       /\ plain' = FALSE
       /\ emitted' = <<>>
       /\ owner' = IF r.pulls > 0 THEN "B" ELSE owner
       /\ UNCHANGED <<source, pos, sourceB, threads>>

\* the tokenizer: every small file, str requests, both separators
CharFiles ==
    Files(MaxLines, MaxSrcChars) \cup {<<l>> : l \in Strs(MaxOneLine)}

Init == Start(CharFiles)

Next ==
    \/ \E types \in StrTuples, sep \in Seps : Read(types, sep)
    \/ ReadLine
    \/ ClearBuffer

Spec == Init /\ [][Next]_vars

\* the coercions: files of words, every request, the default separator
InitTyped == Start(TypedFiles)

NextTyped ==
    \/ \E types \in TypeTuples : Read(types, <<>>)
    \/ \E typ \in ScalarTypes, n \in 0..MaxCount : ReadList(typ, n, <<>>)
    \/ \E typ \in CustomTypes : Read(<<typ>>, <<>>)
    \/ ReadLine
    \/ ClearBuffer

SpecTyped == InitTyped /\ [][NextTyped]_vars

\* read and read_list side by side: small files, requests of one repeated
\* type (str, or int, which no token of these files converts to), both
\* separators
MixFiles == Files(MaxLines, MaxSrcChars - 1)

MixTypes == {TStr, TInt}

MixTuples == UNION {[1..k -> {typ}] : typ \in MixTypes, k \in 0..MaxCount}

InitMix == Start(MixFiles)

NextMix ==
    \/ \E types \in MixTuples, sep \in Seps : Read(types, sep)
    \/ \E typ \in MixTypes, n \in 0..MaxCount, sep \in Seps :
           ReadList(typ, n, sep)
    \/ ReadLine
    \/ ClearBuffer

SpecMix == InitMix /\ [][NextMix]_vars

\* two files and one buffer: a one-line file A, a one-line file B, reads of
\* one or two str requests and readline on either file
FilesA == {<<>>} \cup {<<l>> : l \in Strs(MaxCharsA)}

FilesB == {<<>>} \cup {<<l>> : l \in Strs(MaxCharsB)}

TwoTuples == {<<TStr>>, <<TStr, TStr>>}

InitTwo == Start2(FilesA, FilesB)

NextTwo ==
    \/ \E types \in TwoTuples, sep \in Seps : Read(types, sep)
    \/ \E types \in TwoTuples, sep \in Seps : ReadB(types, sep)
    \/ ReadLine
    \/ ReadLineB
    \/ ClearBuffer

SpecTwo == InitTwo /\ [][NextTwo]_vars

----------------------------------------------------------------------------
(* Two callers, interleaved statement by statement *)

\* Each caller runs read(str) and readline() on the one file, one statement of
\* _read_one or readline per step.  thr[t].pc names the statement caller t
\* executes next, thr[t].parts and thr[t].ret are its local variables.
\* With lock = "off" the calls run unguarded; otherwise a call runs from its
\* first statement to its return with the mutex held.

\* the sequential history, which the concurrent callers leave alone
history == <<last, plain, emitted, sourceB, posB, owner>>

\* the mutex: a call may begin when no mutex is used or the mutex is free
CanEnter == lock \in {"off", "free"}

\* the mutex after caller t acquired it
Acquired(t) == IF lock = "off" THEN "off" ELSE t

\* the mutex after the call returned or raised
Released == IF lock = "off" THEN "off" ELSE "free"

\* mutant: nothing of the line is kept
rest_none(parts) == <<>>

\* parts[1] if len(parts) > 1 else None
rest(parts) == IF Len(parts) > 1 THEN <<parts[2]>> ELSE <<>>

\* parts[0] if parts else None
first(parts) == IF parts # <<>> THEN <<parts[1]>> ELSE <<>>

At(t, pc) == thr[t].pc = pc

\* caller t is in no call and its locals are gone
Return(t) == [thr EXCEPT ![t].pc = "idle", ![t].parts = <<>>, ![t].ret = <<>>]

\* caller t enters a call
Enter(t, pc) ==
    /\ At(t, "idle") /\ CanEnter
    /\ thr[t].calls < MaxCalls
    /\ thr' = [thr EXCEPT ![t].pc = pc, ![t].calls = @ + 1]
    /\ lock' = Acquired(t)

Goto(t, pc) == thr' = [thr EXCEPT ![t].pc = pc]

\* the call of caller t ends and hands text to it (nothing when text is
\* None or ""; read raises "No input provided" then)
Deliver(t, text) ==
    /\ thr' = Return(t)
    /\ lock' = Released
    /\ delivered' = IF Falsy(text) THEN delivered
                    ELSE Append(delivered, [who |-> t, text |-> text[1]])

\* caller t calls read(str)
BeginRead(t) ==
    /\ Enter(t, "if not _buffer")
    /\ UNCHANGED <<source, pos, buffer, delivered, history>>

\* if not _buffer:
ReadOneTest(t) ==
    /\ At(t, "if not _buffer")
    /\ Goto(t, IF Falsy(buffer) THEN "_buffer = file.readline().strip()"
                ELSE "parts = _buffer.strip().split(sep, 1)")
    /\ UNCHANGED <<source, pos, buffer, lock, delivered, history>>

\* _buffer = file.readline().strip()
ReadOneFill(t) ==
    /\ At(t, "_buffer = file.readline().strip()")
    /\ buffer' = <<strip(fileReadline(source, pos))>>
    /\ pos' = fileAdvance(source, pos)
    /\ Goto(t, "parts = _buffer.strip().split(sep, 1)")
    /\ UNCHANGED <<source, lock, delivered, history>>

\* parts = _buffer.strip().split(sep, 1): AttributeError when _buffer is None
ReadOneSplit(t) ==
    /\ At(t, "parts = _buffer.strip().split(sep, 1)")
    /\ thr' = IF buffer = <<>>
              THEN [thr EXCEPT ![t].pc = "AttributeError"]
              ELSE [thr EXCEPT ![t].pc = "_buffer = parts[1]",
                               ![t].parts = split(strip(buffer[1]), <<>>)]
    /\ UNCHANGED <<source, pos, buffer, lock, delivered, history>>

\* _buffer = parts[1] if len(parts) > 1 else None
ReadOneStore(t) ==
    /\ At(t, "_buffer = parts[1]")
    /\ buffer' = rest(thr[t].parts)
    /\ Goto(t, "return parts[0]")
    /\ UNCHANGED <<source, pos, lock, delivered, history>>

\* return parts[0] if parts else None, and read returning the token or
\* raising "No input provided"
ReadReturn(t) ==
    /\ At(t, "return parts[0]")
    /\ Deliver(t, first(thr[t].parts))
    /\ UNCHANGED <<source, pos, buffer, history>>

\* the AttributeError leaves read
ReadRaise(t) ==
    /\ At(t, "AttributeError")
    /\ thr' = Return(t)
    /\ lock' = Released
    /\ UNCHANGED <<source, pos, buffer, delivered, history>>

\* caller t calls readline()
BeginReadline(t) ==
    /\ Enter(t, "if _buffer")
    /\ UNCHANGED <<source, pos, buffer, delivered, history>>

\* if _buffer:
ReadlineTest(t) ==
    /\ At(t, "if _buffer")
    /\ Goto(t, IF ~Falsy(buffer) THEN "ret = _buffer"
                ELSE "return file.readline().strip()")
    /\ UNCHANGED <<source, pos, buffer, lock, delivered, history>>

\* ret = _buffer
ReadlineTake(t) ==
    /\ At(t, "ret = _buffer")
    /\ thr' = [thr EXCEPT ![t].pc = "_buffer = None", ![t].ret = buffer]
    /\ UNCHANGED <<source, pos, buffer, lock, delivered, history>>

\* _buffer = None
ReadlineClear(t) ==
    /\ At(t, "_buffer = None")
    /\ buffer' = <<>>
    /\ Goto(t, "return ret")
    /\ UNCHANGED <<source, pos, lock, delivered, history>>

\* return ret
ReadlineReturn(t) ==
    /\ At(t, "return ret")
    /\ Deliver(t, thr[t].ret)
    /\ UNCHANGED <<source, pos, buffer, history>>

\* return file.readline().strip()
ReadlineFresh(t) ==
    /\ At(t, "return file.readline().strip()")
    /\ pos' = fileAdvance(source, pos)
    /\ Deliver(t, <<strip(fileReadline(source, pos))>>)
    /\ UNCHANGED <<source, buffer, history>>

\* files of words, with and without the mutex
ThreadFiles == UNION {[1..k -> WordLines(MaxWords)] : k \in 0..MaxLines}

InitThreads == Start3(ThreadFiles, {<<>>}, {"off", "free"})

NextThreads ==
    \E t \in Callers :
        \/ BeginRead(t)
        \/ ReadOneTest(t)
        \/ ReadOneFill(t)
        \/ ReadOneSplit(t)
        \/ ReadOneStore(t)
        \/ ReadReturn(t)
        \/ ReadRaise(t)
        \/ BeginReadline(t)
        \/ ReadlineTest(t)
        \/ ReadlineTake(t)
        \/ ReadlineClear(t)
        \/ ReadlineReturn(t)
        \/ ReadlineFresh(t)

SpecThreads == InitThreads /\ [][NextThreads]_vars

----------------------------------------------------------------------------
(* What the claims speak of, defined on the file content alone *)

NonWs(s) == {i \in 1..Len(s) : s[i] \notin Whitespace}

\* s without its leading and trailing whitespace
Trimmed(s) ==
    IF NonWs(s) = {} THEN <<>>
    ELSE SubSeq(s, CHOOSE i \in NonWs(s) : \A j \in NonWs(s) : i <= j,
                   CHOOSE i \in NonWs(s) : \A j \in NonWs(s) : i >= j)

\* length of the run of non-whitespace characters s starts with
RunLen(s) ==
    CHOOSE n \in 0..Len(s) :
        /\ \A i \in 1..n : s[i] \notin Whitespace
        /\ n = Len(s) \/ s[n + 1] \in Whitespace

\* the whitespace-separated tokens of a line, left to right
RECURSIVE Tokens(_)
Tokens(s) ==
    IF s = <<>> THEN <<>>
    ELSE IF Head(s) \in Whitespace THEN Tokens(Tail(s))
    ELSE <<SubSeq(s, 1, RunLen(s))>> \o Tokens(SubSeq(s, RunLen(s) + 1, Len(s)))

\* the tokens of a file in stream order
RECURSIVE FileTokens(_)
FileTokens(src) ==
    IF src = <<>> THEN <<>> ELSE Tokens(Head(src)) \o FileTokens(Tail(src))

NonBlank(src) == \A i \in 1..Len(src) : Tokens(src[i]) # <<>>

\* number of tokens on the first j lines
CumTokens(src, j) == Len(FileTokens(SubSeq(src, 1, j)))

\* what is left of a line after its first k tokens, trimmed
RECURSIVE DropTokens(_, _)
DropTokens(s, k) ==
    IF k = 0 THEN Trimmed(s)
    ELSE LET t == Trimmed(s)
         IN DropTokens(SubSeq(t, RunLen(t) + 1, Len(t)), k - 1)

\* the fields of s between the occurrences of the separator d, left to right
RECURSIVE FieldsFrom(_, _, _)
FieldsFrom(s, d, cur) ==
    IF s = <<>> THEN <<cur>>
    ELSE IF Len(s) >= Len(d) /\ SubSeq(s, 1, Len(d)) = d
    THEN <<cur>> \o FieldsFrom(SubSeq(s, Len(d) + 1, Len(s)), d, <<>>)
    ELSE FieldsFrom(Tail(s), d, Append(cur, Head(s)))

Fields(s, d) == FieldsFrom(s, d, <<>>)

\* the first token of a fresh line under a separator, <<>> when it has none
FirstToken(line, sep) ==
    IF sep = <<>>
    THEN IF Tokens(line) = <<>> THEN <<>> ELSE Tokens(line)[1]
    ELSE Fields(Trimmed(line), sep[1])[1]

IsRead == last.op = "read"

----------------------------------------------------------------------------
(* C1 *)

\* C1: with the default separator and no clear_buffer or readline in
\* between, the reads of a file of non-blank lines hand out the file's
\* whitespace-separated tokens once each and in stream order, across line
\* ends: the tokens handed out so far are a prefix of the file's tokens, a
\* read(str) returns the next one, and it fails only when none is left.
C1_TokensInOrder ==
    (plain /\ NonBlank(source)) =>
        LET all == FileTokens(source)
            k   == Len(last.preEmitted)
        IN /\ Len(emitted) <= Len(all)
           /\ emitted = SubSeq(all, 1, Len(emitted))
           /\ (IsRead /\ last.types = <<TStr>>) =>
                  IF k < Len(all)
                  THEN /\ last.error = ""
                       /\ last.value = StrVal(all[k + 1])
                       /\ emitted = SubSeq(all, 1, k + 1)
                  ELSE last.error = "EmptyInputError"

\* a read(str) that crossed into the second line and took the last token
C1_Witness ==
    /\ plain /\ NonBlank(source) /\ Len(source) = 2
    /\ Len(Tokens(source[1])) = 2
    /\ IsRead /\ last.types = <<TStr>> /\ last.error = ""
    /\ last.pulls = 1 /\ last.prePos = 1
    /\ emitted = FileTokens(source) /\ Len(emitted) = 3

----------------------------------------------------------------------------
(* C2 *)

\* C2: clear_buffer reads no line and leaves the buffer absent, and the read
\* that follows it returns the first token of the next line not yet pulled,
\* whatever was read before and whatever remainder was held.
C2_ClearThenRead ==
    /\ last.op = "clear_buffer" => (buffer = <<>> /\ pos = last.prePos)
    /\ (/\ IsRead /\ last.prev = "clear_buffer" /\ last.types # <<>>
        /\ last.prePos < Len(source)
        /\ FirstToken(source[last.prePos + 1], last.sep) # <<>>)
       => /\ last.tokens # <<>>
          /\ last.tokens[1] = FirstToken(source[last.prePos + 1], last.sep)
          /\ Len(last.types) = 1 =>
                 (last.error = "" /\ last.value = StrVal(last.tokens[1]))

\* a read after clear_buffer at a first line of two tokens, of which the
\* second line's token differs from both
C2_Witness ==
    /\ IsRead /\ last.prev = "clear_buffer" /\ last.types = <<TStr>>
    /\ last.prePos = 1 /\ Len(source) = 2
    /\ Len(Tokens(source[1])) = 2
    /\ last.error = "" /\ last.tokens = Tokens(source[2])
    /\ \A i \in 1..2 : Tokens(source[1])[i] # last.tokens[1]

----------------------------------------------------------------------------
(* C3 *)

\* a readline that follows only default-separator reads of a file of
\* non-blank lines: Len(last.preEmitted) tokens were read before it
ReadlineAfterReads ==
    last.op = "readline" /\ last.prePlain /\ NonBlank(source)

\* C3 as stated: for every line j of N tokens and every k in 0..N, readline
\* after the first k tokens of line j returns the rest of line j, trimmed;
\* for k = N that is the empty str.
C3_RestOfLineUpToN ==
    ReadlineAfterReads =>
        \A j \in 1..Len(source) : \A k \in 0..Len(Tokens(source[j])) :
            CumTokens(source, j - 1) + k = Len(last.preEmitted) =>
                last.value = StrVal(DropTokens(source[j], k))

\* C3 amended: for k < N readline returns the rest of line j, trimmed, holds
\* nothing afterwards and reads no line; once all N tokens of line j are read
\* (k = N) the buffer is absent and readline returns the next line of the
\* file, trimmed, or the empty str at the end of the file.
C3_RestOfLine ==
    ReadlineAfterReads =>
        \A j \in 1..Len(source) :
            /\ \A k \in 0..(Len(Tokens(source[j])) - 1) :
                   CumTokens(source, j - 1) + k = Len(last.preEmitted) =>
                       /\ last.value = StrVal(DropTokens(source[j], k))
                       /\ buffer = <<>> /\ pos = j
            /\ CumTokens(source, j) = Len(last.preEmitted) =>
                   /\ last.preBuffer = <<>>
                   /\ last.value = StrVal(IF j < Len(source)
                                          THEN Trimmed(source[j + 1])
                                          ELSE <<>>)

\* readline after one token of a first line of two, a second line following
C3_Witness ==
    /\ ReadlineAfterReads /\ Len(source) = 2
    /\ Len(Tokens(source[1])) = 2 /\ Len(last.preEmitted) = 1
    /\ last.value = StrVal(Tokens(source[1])[2])
    /\ Tokens(source[1])[2] # Trimmed(source[2])

----------------------------------------------------------------------------
(* C4 *)

\* number of scalar leaves of a request
RECURSIVE Leaves(_)
Leaves(typ) ==
    IF typ.tag # "list" THEN 1
    ELSE IF typ.elems = <<>> THEN 0
    ELSE Leaves(Head(typ.elems)) + Leaves(ListShape(Tail(typ.elems)))

\* the value has the structure of the request, position by position
RECURSIVE Matches(_, _)
Matches(val, typ) ==
    IF typ.tag # "list" THEN val.kind = typ.tag
    ELSE /\ val.kind = "list"
         /\ Len(val.items) = Len(typ.elems)
         /\ \A i \in 1..Len(typ.elems) : Matches(val.items[i], typ.elems[i])

\* C4: a successful read of one non-empty list shape pulls one token per
\* scalar leaf and returns a nested list of the structure of the shape.
C4_ListShape ==
    (/\ IsRead /\ Len(last.types) = 1 /\ last.types[1].tag = "list"
     /\ last.types[1].elems # <<>> /\ last.error = "")
    => /\ Len(last.tokens) = Leaves(last.types[1])
       /\ Matches(last.value, last.types[1])

----------------------------------------------------------------------------
(* C5 *)

\* C5: read([]) and read_list(typ, 0) raise InvalidRequestError in every
\* state of the buffer and of the file.
C5_EmptyListInvalid ==
    /\ (IsRead /\ last.types = <<EmptyShape>>) =>
           last.error = "InvalidRequestError"
    /\ (last.op = "read_list" /\ last.n = 0) =>
           last.error = "InvalidRequestError"

----------------------------------------------------------------------------
(* C6 *)

\* a read of at least one request that started with the buffer absent or
\* empty and the file exhausted
ReadAtEnd ==
    /\ IsRead /\ last.types # <<>>
    /\ Falsy(last.preBuffer) /\ last.prePos = Len(source)

\* C6: such a read raises EmptyInputError and leaves the buffer absent and
\* the file exhausted, so that the precondition holds again for every later
\* read.
C6_EmptyAtEnd ==
    ReadAtEnd =>
        /\ last.error = "EmptyInputError"
        /\ last.tokens = <<>>
        /\ buffer = <<>>
        /\ pos = Len(source)

\* a second failing read at the end of a file that held a token
C6_Witness ==
    /\ ReadAtEnd /\ last.prev = "EmptyInputError"
    /\ last.error = "EmptyInputError"
    /\ FileTokens(source) # <<>>

----------------------------------------------------------------------------
(* C7 *)

\* two characters are the same letter in either case
CasePairs ==
    {<<"t", "T">>, <<"r", "R">>, <<"u", "U">>, <<"e", "E">>, <<"f", "F">>,
     <<"a", "A">>, <<"l", "L">>, <<"s", "S">>}

SameLetter(c, d) == c = d \/ <<c, d>> \in CasePairs \/ <<d, c>> \in CasePairs

\* two strs are equal ignoring case
EqualIgnoringCase(v, w) ==
    Len(v) = Len(w) /\ \A i \in 1..Len(v) : SameLetter(v[i], w[i])

\* a whitespace-free token can be coerced to a scalar type
Coercible(tok, typ) ==
    IF typ.tag = "str" THEN TRUE
    ELSE IF typ.tag = "int" THEN \A i \in 1..Len(tok) : tok[i] \in Digits
    ELSE EqualIgnoringCase(tok, STrue) \/ EqualIgnoringCase(tok, SFalse)

\* a read of scalar requests after default-separator reads of a file of
\* non-blank lines
ScalarReadAfterReads ==
    /\ IsRead /\ last.prePlain /\ last.sep = <<>> /\ NonBlank(source)
    /\ \A i \in 1..Len(last.types) : last.types[i] \in ScalarTypes

\* C7: a read that fails in the coercion of its i-th request has pulled
\* exactly the next i tokens of the stream, the offending one included and
\* the first i - 1 coercible; nothing is put back, so the read that follows
\* starts at the token after the offending one.
C7_NoRollback ==
    ScalarReadAfterReads =>
        LET all == FileTokens(source)
            k   == Len(last.preEmitted)
            i   == Len(last.tokens)
        IN /\ last.error = "ConversionError" =>
                  /\ i >= 1 /\ k + i <= Len(all)
                  /\ last.tokens = SubSeq(all, k + 1, k + i)
                  /\ \A m \in 1..(i - 1) :
                         Coercible(last.tokens[m], last.types[m])
                  /\ ~Coercible(last.tokens[i], last.types[i])
                  /\ emitted = SubSeq(all, 1, k + i)
           /\ (last.prev = "ConversionError" /\ last.types # <<>>
               /\ k < Len(all)) =>
                  /\ last.tokens # <<>>
                  /\ last.tokens[1] = all[k + 1]

\* the read after a read that failed on its second token: it returns the
\* third token of the file, from the second line
C7_Witness ==
    /\ ScalarReadAfterReads /\ last.prev = "ConversionError"
    /\ Len(last.preEmitted) = 2 /\ last.prePos = 1 /\ last.pulls = 1
    /\ ~Coercible(last.preEmitted[2], TInt)
    /\ last.types = <<TInt>> /\ last.error = ""
    /\ last.value = IntVal(1)

----------------------------------------------------------------------------
(* C8 *)

\* a read(bool) that pulled a token
BoolRead == IsRead /\ last.types = <<TBool>> /\ last.tokens # <<>>

\* C8: the boolean coercion returns True exactly for the spellings of "true"
\* and False exactly for the spellings of "false", in any mix of cases, and
\* fails with ConversionError on every other token.
C8_BoolCoercion ==
    BoolRead =>
        LET w == last.tokens[1]
        IN IF EqualIgnoringCase(w, STrue)
           THEN last.error = "" /\ last.value = BoolVal(TRUE)
           ELSE IF EqualIgnoringCase(w, SFalse)
           THEN last.error = "" /\ last.value = BoolVal(FALSE)
           ELSE last.error = "ConversionError"

\* a mixed-case spelling of "false" read as False
C8_Witness ==
    /\ BoolRead /\ last.value = BoolVal(FALSE) /\ last.error = ""
    /\ last.tokens[1] \notin {SFalse, <<"F", "A", "L", "S", "E">>}

----------------------------------------------------------------------------
(* C10 *)

\* a successful read of scalar requests
ScalarReadOk ==
    /\ IsRead /\ last.error = ""
    /\ \A i \in 1..Len(last.types) : last.types[i] \in ScalarTypes

\* the kind of value a scalar request yields
KindOf(typ) == typ.tag

\* C10: read returns the coerced value itself for one request and otherwise
\* a tuple of one result per request, in request order; with no request it
\* returns the empty tuple and touches neither the buffer nor the file.
C10_SingleOrTuple ==
    ScalarReadOk =>
        LET n == Len(last.types)
        IN /\ Len(last.tokens) = n
           /\ n = 1 => /\ last.value.kind = KindOf(last.types[1])
                       /\ last.value = _transform(last.tokens[1],
                                                  last.types[1]).val
           /\ n # 1 =>
                  /\ last.value.kind = "tuple"
                  /\ Len(last.value.items) = n
                  /\ \A i \in 1..n :
                         /\ last.value.items[i].kind = KindOf(last.types[i])
                         /\ last.value.items[i] =
                                _transform(last.tokens[i], last.types[i]).val
           /\ n = 0 => /\ last.value = TupleVal(<<>>)
                       /\ buffer = last.preBuffer /\ pos = last.prePos

\* a read(int, str) that returned a pair of an int and a str
C10_Witness ==
    /\ ScalarReadOk /\ last.types = <<TInt, TStr>>
    /\ last.value = TupleVal(<<IntVal(1), StrVal(<<"a">>)>>)

----------------------------------------------------------------------------
(* C9 *)

\* the line a read starts on when it begins with the buffer absent or empty
FreshLine == source[last.prePos + 1]

\* a read with separator "|" that starts on a fresh line made of non-empty
\* fields joined by "|", with one str request per field
SepReadOfFields ==
    /\ IsRead /\ last.sep = << <<"|">> >>
    /\ Falsy(last.preBuffer) /\ last.prePos < Len(source)
    /\ Len(last.types) = Len(Fields(FreshLine, <<"|">>))
    /\ \A i \in 1..Len(last.types) : Fields(FreshLine, <<"|">>)[i] # <<>>

\* the value of a successful read of str requests that yields the strs f
StrResult(f) ==
    IF Len(f) = 1 THEN StrVal(f[1])
    ELSE TupleVal([i \in 1..Len(f) |-> StrVal(f[i])])

\* C9 as stated: the read yields the fields in order and leaves no remainder.
C9_FieldsAnyContent ==
    SepReadOfFields =>
        /\ last.error = ""
        /\ last.value = StrResult(Fields(FreshLine, <<"|">>))
        /\ buffer = <<>>

\* C9 amended: when no field begins or ends with whitespace, the read
\* yields the fields in order, reads that one line and leaves no remainder.
C9_Fields ==
    (/\ SepReadOfFields
     /\ \A i \in 1..Len(last.types) :
            Fields(FreshLine, <<"|">>)[i] = Trimmed(Fields(FreshLine, <<"|">>)[i]))
    => /\ last.error = ""
       /\ last.value = StrResult(Fields(FreshLine, <<"|">>))
       /\ last.tokens = Fields(FreshLine, <<"|">>)
       /\ buffer = <<>>
       /\ pos = last.prePos + 1

\* three fields read from one line
C9_Witness ==
    /\ SepReadOfFields /\ Len(last.types) = 3 /\ last.error = ""
    /\ last.value = StrResult(Fields(FreshLine, <<"|">>))
    /\ buffer = <<>>

----------------------------------------------------------------------------
(* C11 *)

IsReadline == last.op = "readline"

\* the line a pull at position p gets, "" at end of file
LineAt(src, p) == IF p < Len(src) THEN src[p + 1] ELSE <<>>

\* position after one pull at position p
After(src, p) == IF p < Len(src) THEN p + 1 ELSE p

\* readline with a non-empty remainder held: the remainder comes back whole,
\* the buffer becomes absent, the source is not touched
ReadlineTakesRemainder ==
    (IsReadline /\ ~Falsy(last.preBuffer)) =>
        /\ last.error = ""
        /\ last.value = StrVal(last.preBuffer[1])
        /\ buffer = <<>>
        /\ pos = last.prePos
        /\ last.pulls = 0

\* readline with no remainder held: one line is pulled and comes back
\* stripped and whole
ReadlineTakesLine ==
    (IsReadline /\ Falsy(last.preBuffer)) =>
        /\ last.error = ""
        /\ last.value = StrVal(Trimmed(LineAt(source, last.prePos)))
        /\ pos = After(source, last.prePos)
        /\ last.pulls = 1

\* C11 as stated: readline with a non-empty remainder returns it, makes the
\* buffer absent and reads nothing; with no remainder it pulls exactly one
\* line, returns it stripped and whole, and the buffer is absent afterwards.
C11_ReadlineBufferAbsent ==
    /\ ReadlineTakesRemainder
    /\ ReadlineTakesLine
    /\ IsReadline => buffer = <<>>

\* C11: readline with a non-empty remainder returns it, makes the buffer
\* absent and reads nothing; with no remainder (buffer absent or the empty
\* string) it pulls exactly one line, returns it stripped and whole, and
\* leaves the buffer as it was.
C11_Readline ==
    /\ ReadlineTakesRemainder
    /\ ReadlineTakesLine
    /\ (IsReadline /\ Falsy(last.preBuffer)) => buffer = last.preBuffer

\* a remainder of two tokens came back as one string, and before that a
\* fresh line of two tokens did
C11_Witness ==
    /\ IsReadline /\ ~Falsy(last.preBuffer)
    /\ Len(Tokens(last.preBuffer[1])) >= 2
    /\ last.value = StrVal(last.preBuffer[1])
    /\ buffer = <<>>

----------------------------------------------------------------------------
(* C12 *)

IsPull == last.op \in {"read", "read_list"}

\* C12: a read raises EmptyInputError only with nothing left: afterwards the
\* buffer holds no unconsumed content and the source holds no further
\* non-blank line.
C12_EmptyOnlyWhenExhausted ==
    (IsPull /\ last.error = "EmptyInputError") =>
        /\ Falsy(buffer)
        /\ \A j \in (pos + 1)..Len(source) : Tokens(source[j]) = <<>>

\* the two cases of C12: the error on a blank line with a non-blank line
\* after it, and on a remainder that begins with the separator
C12_BlankLineInTheMiddle ==
    ~ /\ IsRead /\ last.error = "EmptyInputError" /\ last.sep = <<>>
      /\ pos < Len(source) /\ Tokens(source[pos + 1]) # <<>>

C12_RemainderStartsWithSep ==
    ~ /\ IsRead /\ last.error = "EmptyInputError" /\ last.sep # <<>>
      /\ ~Falsy(last.preBuffer) /\ ~Falsy(buffer)

----------------------------------------------------------------------------
(* C13 *)

\* C13: the string readline returns has no leading and no trailing
\* whitespace, whether it is the held remainder or a fresh line.
C13_ReadlineStripped ==
    (IsReadline /\ last.error = "") =>
        last.value.s = Trimmed(last.value.s)

----------------------------------------------------------------------------
(* C15 *)

\* token pulls the last read made: one per token it got, and the one that
\* came back empty
Attempts == Len(last.tokens) + (IF last.error = "EmptyInputError" THEN 1 ELSE 0)

\* C15: a token pull reads a line only when the buffer is absent or empty,
\* and then one line: a read moves the source by at most one line per pull
\* and by none for a first pull that finds content held; a single pull with
\* the buffer absent or empty reads exactly the next line; once the last
\* token of the pulled lines is out the buffer is absent or empty; so a
\* successful read of n requests pulls at most n lines.
C15_PullOnlyWhenEmpty ==
    /\ IsRead =>
        /\ pos - last.prePos <=
               Attempts - (IF ~Falsy(last.preBuffer) /\ Attempts >= 1 THEN 1 ELSE 0)
        /\ last.error = "" => pos - last.prePos <= Len(last.types)
        /\ (Len(last.types) = 1 /\ ~Falsy(last.preBuffer)) =>
               pos = last.prePos /\ last.pulls = 0
        /\ (Len(last.types) = 1 /\ Falsy(last.preBuffer)) =>
               pos = After(source, last.prePos) /\ last.pulls = 1
    /\ (plain /\ NonBlank(source) /\ Len(emitted) = CumTokens(source, pos)) =>
           Falsy(buffer)

\* a read of two requests took the last token of the held remainder without
\* touching the source and then pulled one line for the second
C15_Witness ==
    /\ IsRead /\ last.error = "" /\ Len(last.types) = 2
    /\ ~Falsy(last.preBuffer)
    /\ Len(Tokens(last.preBuffer[1])) = 1
    /\ pos = last.prePos + 1
    /\ last.pulls = 1

----------------------------------------------------------------------------
(* C18 *)

ReadlineAtEnd ==
    IsReadline /\ Falsy(last.preBuffer) /\ last.prePos = Len(source)

ReadlineOnBlank ==
    /\ IsReadline /\ Falsy(last.preBuffer) /\ last.prePos < Len(source)
    /\ Tokens(source[last.prePos + 1]) = <<>>

\* C18 as stated: readline on an exhausted source with no remainder held
\* returns "" without an error and the buffer is absent afterwards; a blank
\* line gives the same "".
C18_EndGivesEmptyBufferAbsent ==
    /\ ReadlineAtEnd =>
           last.error = "" /\ last.value = StrVal(<<>>) /\ buffer = <<>>
    /\ ReadlineOnBlank => last.error = "" /\ last.value = StrVal(<<>>)

\* C18: readline on an exhausted source with no remainder held (buffer
\* absent or the empty string) returns "" without an error and leaves the
\* buffer and the source as they were; a blank line gives the same "".
C18_EndGivesEmpty ==
    /\ ReadlineAtEnd =>
           /\ last.error = "" /\ last.value = StrVal(<<>>)
           /\ buffer = last.preBuffer /\ pos = last.prePos
    /\ ReadlineOnBlank => last.error = "" /\ last.value = StrVal(<<>>)

\* readline returned "" at the end of a file whose last line was read by a
\* readline before
C18_Witness ==
    /\ ReadlineAtEnd /\ Len(source) >= 1
    /\ last.value = StrVal(<<>>) /\ last.error = ""
    /\ buffer = <<>>

\* readline returned "" for a blank line that a non-blank line follows
C18_WitnessBlank ==
    /\ ReadlineOnBlank /\ last.value = StrVal(<<>>)
    /\ pos < Len(source) /\ Tokens(source[pos + 1]) # <<>>

----------------------------------------------------------------------------
(* C14 *)

IsSuffix(t, s) ==
    Len(t) <= Len(s) /\ SubSeq(s, Len(s) - Len(t) + 1, Len(s)) = t

\* the places where piece occurs in text
Occurrences(piece, text) ==
    {i \in 1..(Len(text) - Len(piece) + 1) :
        SubSeq(text, i, i + Len(piece) - 1) = piece}

\* the pieces occur in text in this order, one after the end of the other
RECURSIVE InOrder(_, _)
InOrder(pieces, text) ==
    IF pieces = <<>> THEN TRUE
    ELSE LET occ == Occurrences(Head(pieces), text)
         IN IF occ = {} THEN FALSE
            ELSE LET i == CHOOSE i \in occ : \A j \in occ : i <= j
                 IN InOrder(Tail(pieces),
                            SubSeq(text, i + Len(Head(pieces)), Len(text)))

\* the lines from..to of a file, each stripped and closed by a line end
RECURSIVE LinesText(_, _, _)
LinesText(src, from, to) ==
    IF from > to THEN <<>>
    ELSE Trimmed(src[from]) \o <<"\n">> \o LinesText(src, from + 1, to)

\* the text the last call could draw on: the content held before it, then
\* the lines it pulled
Available ==
    (IF Falsy(last.preBuffer) THEN <<>> ELSE last.preBuffer[1] \o <<"\n">>)
    \o LinesText(source, last.prePos + 1, pos)

Held == IF buffer = <<>> THEN <<>> ELSE buffer[1]

\* C14: in every state the buffer is absent or a suffix of the stripped
\* text of the most recently pulled line, and the tokens a read or read_list
\* call got, followed by what it left in the buffer, lie one after the other
\* in the text it could draw on (the content held before, then the lines it
\* pulled), whatever separators this and the earlier calls used: no
\* character is handed out twice and the buffer never spans two lines.
C14_BufferIsSuffix ==
    /\ buffer # <<>> => pos >= 1 /\ IsSuffix(buffer[1], Trimmed(source[pos]))
    /\ IsPull => InOrder(Append(last.tokens, Held), Available)

\* a read with the separator "|" took a token from the remainder that reads
\* with the default separator had left, and left a remainder itself
C14_Witness ==
    /\ IsPull /\ last.sep # <<>> /\ last.error = ""
    /\ last.prePlain /\ last.preEmitted # <<>>
    /\ ~Falsy(last.preBuffer)
    /\ Len(last.tokens) >= 1

\* read_list left a proper suffix of the second line in the buffer
C14_WitnessSecondLine ==
    /\ last.op = "read_list" /\ last.error = "" /\ pos = 2
    /\ ~Falsy(buffer) /\ buffer[1] # Trimmed(source[2])

----------------------------------------------------------------------------
(* C17 *)

IsReadList == last.op = "read_list"

\* the request read(T, ..., T) with n times the type of the last read_list
Repeated == [i \in 1..last.n |-> last.types[1]]

\* the values of a read result as a sequence
Values(v) == IF v.kind = "tuple" THEN v.items ELSE <<v>>

\* C17: read_list(T, n) with n >= 1 does what read(T, ..., T) with n
\* requests does from the same buffer and source position: the same tokens
\* pulled, the same error or the same values in the same order, the same
\* buffer and source position afterwards.
C17_ListAsRead ==
    (IsReadList /\ last.n >= 1) =>
        LET r == read(Repeated, last.sep, source, last.preBuffer, last.prePos)
        IN /\ last.tokens = r.tokens
           /\ last.error = r.error
           /\ buffer = r.buffer
           /\ pos = r.pos
           /\ last.error = "" =>
                  /\ last.value.kind = "list"
                  /\ last.value.items = Values(r.value)
                  /\ Len(last.value.items) = last.n

\* read_list(str, 2, sep="|") returned two different fields
C17_Witness ==
    /\ IsReadList /\ last.n = 2 /\ last.error = ""
    /\ last.sep # <<>>
    /\ last.value.items[1] # last.value.items[2]

\* read_list(int, 2) failed on its first token with the tokens after it
\* still in the buffer
C17_WitnessError ==
    /\ IsReadList /\ last.n = 2 /\ last.error = "ConversionError"
    /\ Len(last.tokens) = 1 /\ ~Falsy(buffer)

----------------------------------------------------------------------------
(* C16 *)

CustomRead == IsRead /\ Len(last.types) = 1 /\ last.types[1] \in CustomTypes

\* C16: a read whose request is a conversion function fails, when the
\* function fails on the token, with ConversionError and with no other kind
\* of error (EmptyInputError is read's own, for a missing token).
C16_CustomFailureWrapped ==
    (CustomRead /\ last.error # "") =>
        last.error \in {"ConversionError", "EmptyInputError"}

\* what does hold: a ValueError or TypeError of the function is wrapped
C16_ValueAndTypeErrorWrapped ==
    (CustomRead /\ last.tokens # <<>>
        /\ call(last.types[1], last.tokens[1]).raises \in Caught) =>
        last.error = "ConversionError"

----------------------------------------------------------------------------
(* C19 *)

OnB == last.file = "B"

\* the call found a non-empty remainder that was pulled from file A
HeldFromA == ~Falsy(last.preBuffer) /\ last.preOwner = "A"

\* C19: a readline on file B that finds a remainder of file A returns that
\* remainder and leaves B alone; a read of one request on B then returns
\* the first token of A's remainder and leaves B alone; a call on B moves B
\* only if it found the buffer absent or empty, or emptied it with an
\* earlier request of the same call, and a single pull or readline on B
\* with the buffer absent or empty reads the next line of B.
C19_OtherSourceGetsRemainder ==
    /\ (OnB /\ HeldFromA) =>
           pos >= 1 /\ IsSuffix(last.preBuffer[1], Trimmed(source[pos]))
    /\ (OnB /\ HeldFromA /\ IsReadline) =>
           /\ last.value = StrVal(last.preBuffer[1])
           /\ posB = last.prePos
           /\ buffer = <<>>
    /\ (OnB /\ HeldFromA /\ IsRead /\ Len(last.types) = 1) =>
           LET t == FirstToken(last.preBuffer[1], last.sep)
           IN /\ posB = last.prePos
              /\ last.tokens = IF t = <<>> THEN <<>> ELSE <<t>>
              /\ t # <<>> => last.error = "" /\ last.value = StrVal(t)
    /\ (OnB /\ posB # last.prePos) =>
           \/ Falsy(last.preBuffer)
           \/ IsRead /\ Len(last.types) >= 2 /\ Len(last.tokens) >= 1
    /\ (OnB /\ Falsy(last.preBuffer) /\ (IsReadline \/ Len(last.types) = 1)) =>
           posB = After(sourceB, last.prePos)

\* a read on the empty file B returned a token: the remainder of A's line
C19_Witness ==
    /\ OnB /\ HeldFromA /\ IsRead /\ Len(last.types) = 1
    /\ sourceB = <<>>
    /\ last.error = "" /\ Len(last.tokens) = 1
    /\ last.value = StrVal(last.tokens[1])

\* a readline on B returned the rest of A's line while B has a line to give
C19_WitnessReadline ==
    /\ OnB /\ HeldFromA /\ IsReadline
    /\ Tokens(last.value.s) # <<>>
    /\ posB = 0 /\ Len(sourceB) = 1 /\ Tokens(sourceB[1]) # <<>>

----------------------------------------------------------------------------
(* C20 *)

\* the tokens of what the calls returned, in the order of the returns
RECURSIVE Flat(_)
Flat(d) == IF d = <<>> THEN <<>> ELSE Tokens(Head(d).text) \o Flat(Tail(d))

IsPrefix(t, s) == Len(t) <= Len(s) /\ SubSeq(s, 1, Len(t)) = t

\* number of times the token x occurs in the sequence of tokens q
Count(x, q) == Cardinality({i \in 1..Len(q) : q[i] = x})

Quiet == \A t \in Callers : At(t, "idle")

C20_DeliveredToBoth ==
    /\ lock = "off"
    /\ \E i, j \in 1..Len(delivered) :
           /\ delivered[i].who # delivered[j].who
           /\ delivered[i].text = delivered[j].text
           /\ Count(delivered[i].text, FileTokens(source)) = 1

\* without the mutex: the file is read to its end, the buffer is absent,
\* no call is running, and a token of the file was returned to no caller
C20_DeliveredToNeither ==
    /\ lock = "off" /\ Quiet
    /\ pos = Len(source) /\ buffer = <<>>
    /\ \E x \in {FileTokens(source)[i] : i \in 1..Len(FileTokens(source))} :
           Count(x, Flat(delivered)) = 0

\* without the mutex: _read_one passed its test with a string in the buffer
\* and reaches the split with the buffer absent
C20_AbsentDereferenced ==
    /\ lock = "off"
    /\ \E t \in Callers : At(t, "AttributeError")

====
